---- MODULE Spec2Model ----
(***************************************************************************)
(* The transactional document model of mpr-photo-editor: Model (the graph  *)
(* of nodes, connections and settings), the Command classes, the           *)
(* Controller with its QUndoStack, and the handle-issuing backend.         *)
(*                                                                         *)
(* Python values are encoded as integers so that any setting can hold any  *)
(* of them: None is 0, backend handles are 1..MaxHandles, file paths are   *)
(* the members of Paths and plain setting values the members of Gains.     *)
(* Positions stand for the (x, y) tuples.                                  *)
(***************************************************************************)
EXTENDS Integers, Sequences, FiniteSets, TLC

\* ------------------------------------------------------------------ bounds
MaxPushes == 2
MaxHandles == 2
MaxPushesRes == 3
MaxHandlesRes == 3
MaxPushesGraph == 3
MaxPushesLoaded == 2
MaxHandlesLoaded == 3
MaxPushesApi == 2
MaxCalls == 3
MaxHandlesModel == 2
MaxPushesDoc == 2
MaxHandlesDoc == 2
MaxPixels == 3
MaxPushesReopen == 1

NodeIds == {"n1", "n2", "n3"}
ResIds == {"n1", "n2"}
NodeTypes == {"ImageLoader", "BlackLevels"}
Positions == {0, 1}
Paths == {101}
Gains == {201}
OutSockets == {"RAW_out"}
InSockets == {"RAW_in"}
GenericKeys == {"gain"}

None == 0

VARIABLES
    nodes,            \* Model.nodes: node id -> [type, position, settings]
    connections,      \* Model.connections: list of connection dicts
    thumbnail_cache,  \* Model.thumbnail_cache: the handles that have an entry
    stack,            \* QUndoStack: the list of commands
    index,            \* QUndoStack: the cursor (number of applied commands)
    live,             \* backend: handles loaded and not released
    nextHandle,       \* backend: the next handle load_raw_image returns
    misreleased,      \* backend: handles released while not live
    strictBackend,    \* backend: whether releasing a handle that is not live raises
    pushes,           \* the number of QUndoStack.push calls so far
    lastop,           \* the last Controller/QUndoStack call and its outcome
    rt,               \* round-trip bookkeeping: the document after the last push
    emitted,          \* what the last direct call of the Model showed: signals, backend calls
    file,             \* the project file: empty, or the record Controller.save_project wrote
    calls,            \* the number of direct calls of the Model and of save/load so far
    test,             \* tests/test_backend.py: empty, or the outcome of running it
    scene             \* NodeScene: the node items and connection items of the view

vars == <<nodes, connections, thumbnail_cache, stack, index, live, nextHandle,
          misreleased, strictBackend, pushes, lastop, rt, emitted, file, calls,
          test, scene>>

\* The view is not followed: no NodeScene is attached to the Model.
NoScene == [on |-> FALSE, node_items |-> {}, connection_items |-> {}, shown |-> {}]

\* ------------------------------------------------------------ Python dicts
EmptyDict == [k \in {} |-> None]
Get(d, k) == IF k \in DOMAIN d THEN d[k] ELSE None
Put(d, k, v) == [x \in DOMAIN d \cup {k} |-> IF x = k THEN v ELSE d[x]]
Del(d, k) == [x \in DOMAIN d \ {k} |-> d[x]]

InList(x, s) == \E i \in 1..Len(s) : s[i] = x
FirstIndex(x, s) == CHOOSE i \in 1..Len(s) : s[i] = x /\ \A j \in 1..(i - 1) : s[j] # x
ListRemove(s, x) ==
    LET i == FirstIndex(x, s) IN SubSeq(s, 1, i - 1) \o SubSeq(s, i + 1, Len(s))

Conn(fn, fs, tn, ts) ==
    [from_node |-> fn, from_socket |-> fs, to_node |-> tn, to_socket |-> ts]

Touches(c, id) == c.from_node = id \/ c.to_node = id

\* ------------------------------------------------- the machine state record
\* The handlers are sequential Python: each is a composition of steps over
\* one record; err is set when a step raised, and later steps are skipped.
\* log is what the handler has shown to others so far, in order: the signals
\* it emitted and the backend functions it called.
Machine ==
    [nodes |-> nodes, conns |-> connections, cache |-> thumbnail_cache,
     stack |-> stack, index |-> index, live |-> live, next |-> nextHandle,
     misreleased |-> misreleased, err |-> FALSE, log |-> <<>>]

Raise(m) == [m EXCEPT !.err = TRUE]

Log(m, e) == [m EXCEPT !.log = Append(@, e)]

\* The signals of Model, delivered synchronously: present says whether the
\* node, or the connection, is in the Model while the slots run.
NodeEvent(m, name, id) ==
    [ev |-> name, node |-> id, present |-> id \in DOMAIN m.nodes]

ConnEvent(m, name, c) ==
    [ev |-> name, conn |-> c, present |-> InList(c, m.conns)]

\* dangling says whether the node's settings hold, while the slots run, a
\* raw_image_id that the backend has released.
SettingEvent(m, id, key, value) ==
    [ev |-> "node_setting_changed", node |-> id, key |-> key, value |-> value,
     present |-> id \in DOMAIN m.nodes,
     dangling |-> /\ Get(m.nodes[id].settings, "raw_image_id") # None
                  /\ Get(m.nodes[id].settings, "raw_image_id") \notin m.live]

\* A call of a backend function; present says whether the backend holds the
\* handle when the call is made (a load is called with no handle yet).
BackendEvent(m, name, h) ==
    [ev |-> name, handle |-> h, present |-> h \in m.live]

\* RemoveNodeCommand.node_data and the entry of Model.nodes are one dict once
\* undo has put it into the model: a write to the node is a write to node_data.
SyncAlias(m) ==
    [m EXCEPT !.stack =
        [i \in 1..Len(m.stack) |->
            IF m.stack[i].kind = "RemoveNode" /\ m.stack[i].alias
               /\ m.stack[i].node_id \in DOMAIN m.nodes
            THEN [m.stack[i] EXCEPT !.node_data = m.nodes[m.stack[i].node_id]]
            ELSE m.stack[i]]]

\* The node's dict leaves Model.nodes: node_data keeps its last contents.
Unalias(s, id) ==
    [i \in 1..Len(s) |->
        IF s[i].kind = "RemoveNode" /\ s[i].node_id = id
        THEN [s[i] EXCEPT !.alias = FALSE] ELSE s[i]]

\* ------------------------------------------------------------------ backend
\* The Rust backend is not part of the sources. load_raw_image returns a new
\* id or raises (env.ok says which, for the one load a step makes); whether
\* release_raw_image raises on an id it does not hold is a property of the
\* build (env.strict). env.uuid is the id uuid4 yields in Model.add_node.

release_raw_image(m, h, env) ==
    IF m.err THEN m
    ELSE IF h \in m.live
    THEN [Log(m, BackendEvent(m, "release_raw_image", h)) EXCEPT !.live = @ \ {h}]
    ELSE [Log(m, BackendEvent(m, "release_raw_image", h)) EXCEPT
            !.misreleased = @ \cup {h}, !.err = env.strict]

\* backend.load_raw_image if it handed out the same id again.
load_raw_image_same(m) ==
    [m EXCEPT !.live = @ \cup {m.next}]

load_raw_image(m) ==
    [Log(m, BackendEvent(m, "load_raw_image", m.next)) EXCEPT
        !.live = @ \cup {m.next}, !.next = @ + 1]

\* backend.load_raw_image raising: the call was made, no handle was issued.
load_raw_image_raises(m) ==
    IF m.err THEN m ELSE Log(m, BackendEvent(m, "load_raw_image", 0))

\* A release that leaves Model.thumbnail_cache alone.
DropThumbnail_keep(m, h) == m

DropThumbnail(m, h) ==
    IF m.err THEN m ELSE [m EXCEPT !.cache = @ \ {h}]

\* -------------------------------------------------------------------- Model
\* Model._add_node_with_data if it replaced a node that is already there.
Model_add_node_with_data_over(m, id, data) ==
    IF m.err THEN m
    ELSE LET m1 == [m EXCEPT !.nodes = Put(@, id, data)]
         IN Log(m1, NodeEvent(m1, "node_added", id))

Model_add_node_with_data(m, id, data) ==
    IF m.err THEN m
    ELSE IF id \in DOMAIN m.nodes THEN Raise(m)
    ELSE LET m1 == [m EXCEPT !.nodes = Put(@, id, data)]
         IN Log(m1, NodeEvent(m1, "node_added", id))

\* Model.remove_connection if it ignored a connection that is not in the list.
Model_remove_connection_quiet(m, c) ==
    IF m.err THEN m
    ELSE IF InList(c, m.conns)
    THEN LET m1 == [m EXCEPT !.conns = ListRemove(@, c)]
         IN Log(m1, ConnEvent(m1, "connection_removed", c))
    ELSE Log(m, ConnEvent(m, "connection_removed", c))

Model_remove_connection(m, c) ==
    IF m.err THEN m
    ELSE IF InList(c, m.conns)
    THEN LET m1 == [m EXCEPT !.conns = ListRemove(@, c)]
         IN Log(m1, ConnEvent(m1, "connection_removed", c))
    ELSE Raise(m)

\* Model.add_connection if it freed the output socket first.
Model_add_connection_exclusive(m, c) ==
    IF m.err THEN m
    ELSE IF c.from_node \notin DOMAIN m.nodes \/ c.to_node \notin DOMAIN m.nodes
    THEN Raise(m)
    ELSE IF ~InList(c, m.conns)
    THEN [m EXCEPT !.conns =
            Append(SelectSeq(@, LAMBDA d : ~(d.from_node = c.from_node
                                             /\ d.from_socket = c.from_socket)), c)]
    ELSE Raise(m)

\* Model.add_connection if it did not look for the tuple in the list.
Model_add_connection_again(m, c) ==
    IF m.err THEN m
    ELSE IF c.from_node \notin DOMAIN m.nodes \/ c.to_node \notin DOMAIN m.nodes
    THEN Raise(m)
    ELSE LET m1 == [m EXCEPT !.conns = Append(@, c)]
         IN Log(m1, ConnEvent(m1, "connection_added", c))

Model_add_connection(m, c) ==
    IF m.err THEN m
    ELSE IF c.from_node \notin DOMAIN m.nodes \/ c.to_node \notin DOMAIN m.nodes
    THEN Raise(m)
    ELSE IF ~InList(c, m.conns)
    THEN LET m1 == [m EXCEPT !.conns = Append(@, c)]
         IN Log(m1, ConnEvent(m1, "connection_added", c))
    ELSE Raise(m)

RECURSIVE RemoveAll(_, _)
RemoveAll(m, cs) ==
    IF cs = <<>> THEN m ELSE RemoveAll(Model_remove_connection(m, Head(cs)), Tail(cs))

\* Model.remove_node if it left the node's connections in place.
Model_remove_node_leave(m, id, env) ==
    IF m.err THEN m
    ELSE IF id \in DOMAIN m.nodes
    THEN LET node_data == m.nodes[id]
             raw_image_id == Get(node_data.settings, "raw_image_id")
             m2 == IF node_data.type = "ImageLoader" /\ raw_image_id # None
                   THEN DropThumbnail(release_raw_image(m, raw_image_id, env), raw_image_id)
                   ELSE m
         IN IF m2.err THEN m2
            ELSE [m2 EXCEPT !.nodes = Del(@, id), !.stack = Unalias(@, id)]
    ELSE Raise(m)

\* Model.remove_node if it emitted node_removed before it released the handle
\* and deleted the node.
Model_remove_node_early(m, id, env) ==
    IF m.err THEN m
    ELSE IF id \in DOMAIN m.nodes
    THEN LET connections_to_remove == SelectSeq(m.conns, LAMBDA c : Touches(c, id))
             m1 == RemoveAll(m, connections_to_remove)
             m1e == Log(m1, NodeEvent(m1, "node_removed", id))
             node_data == m.nodes[id]
             raw_image_id == Get(node_data.settings, "raw_image_id")
             m2 == IF node_data.type = "ImageLoader" /\ raw_image_id # None
                   THEN DropThumbnail(release_raw_image(m1e, raw_image_id, env), raw_image_id)
                   ELSE m1e
         IN IF m2.err THEN m2
            ELSE [m2 EXCEPT !.nodes = Del(@, id), !.stack = Unalias(@, id)]
    ELSE Raise(m)

Model_remove_node(m, id, env) ==
    IF m.err THEN m
    ELSE IF id \in DOMAIN m.nodes
    THEN LET connections_to_remove == SelectSeq(m.conns, LAMBDA c : Touches(c, id))
             m1 == RemoveAll(m, connections_to_remove)
             node_data == m.nodes[id]
             raw_image_id == Get(node_data.settings, "raw_image_id")
             m2 == IF node_data.type = "ImageLoader" /\ raw_image_id # None
                   THEN DropThumbnail(release_raw_image(m1, raw_image_id, env), raw_image_id)
                   ELSE m1
             m3 == [m2 EXCEPT !.nodes = Del(@, id), !.stack = Unalias(@, id)]
         IN IF m2.err THEN m2
            ELSE Log(m3, NodeEvent(m3, "node_removed", id))
    ELSE Raise(m)

\* Model.update_node_setting if it replaced the settings of the node by the one
\* key it writes.
Model_update_node_setting_only(m, id, key, value) ==
    IF m.err THEN m
    ELSE IF id \in DOMAIN m.nodes
    THEN LET m1 == SyncAlias([m EXCEPT !.nodes[id].settings = Put(<<>>, key, value)])
         IN Log(m1, SettingEvent(m1, id, key, value))
    ELSE Raise(m)

Model_update_node_setting(m, id, key, value) ==
    IF m.err THEN m
    ELSE IF id \in DOMAIN m.nodes
    THEN LET m1 == SyncAlias([m EXCEPT !.nodes[id].settings = Put(@, key, value)])
         IN Log(m1, SettingEvent(m1, id, key, value))
    ELSE Raise(m)

Model_update_node_position(m, id, position) ==
    IF m.err THEN m
    ELSE IF id \in DOMAIN m.nodes
    THEN LET m1 == SyncAlias([m EXCEPT !.nodes[id].position = position])
         IN Log(m1, NodeEvent(m1, "node_position_changed", id))
    ELSE Raise(m)

\* Model.clear; order is the order in which the dict yields the nodes.
RECURSIVE ReleaseAll(_, _, _)
ReleaseAll(m, order, env) ==
    IF order = <<>> \/ m.err THEN m
    ELSE LET node_data == m.nodes[Head(order)]
             raw_image_id == Get(node_data.settings, "raw_image_id")
         IN ReleaseAll(IF node_data.type = "ImageLoader" /\ raw_image_id # None
                       THEN release_raw_image(m, raw_image_id, env) ELSE m,
                       Tail(order), env)

UnaliasAll(s) ==
    [i \in 1..Len(s) |->
        IF s[i].kind = "RemoveNode" THEN [s[i] EXCEPT !.alias = FALSE] ELSE s[i]]

\* The signals Model.clear and Model.from_dict emit in a loop, one per member.
RECURSIVE EmitConns(_, _, _)
EmitConns(m, name, cs) ==
    IF cs = <<>> THEN m
    ELSE EmitConns(Log(m, ConnEvent(m, name, Head(cs))), name, Tail(cs))

RECURSIVE EmitNodes(_, _, _)
EmitNodes(m, name, order) ==
    IF order = <<>> THEN m
    ELSE EmitNodes(Log(m, NodeEvent(m, name, Head(order))), name, Tail(order))

Model_clear(m, order, env) ==
    LET m1 == ReleaseAll(m, order, env)
        m2 == EmitNodes(EmitConns(m1, "connection_removed", m1.conns),
                        "node_removed", order)
    IN IF m1.err THEN m1
       ELSE [m2 EXCEPT !.nodes = EmptyDict, !.conns = <<>>, !.cache = {},
                       !.stack = UnaliasAll(@)]

\* Model.from_dict; data.order is the order of the nodes in the file and okset
\* the nodes whose file the backend can load.
\* The loop of Model.from_dict if a failed load left the node with the
\* raw_image_id of the file.
RECURSIVE Reacquire_keep(_, _, _, _)
Reacquire_keep(m, nodes_data, order, okset) ==
    IF order = <<>> THEN [m |-> m, nodes_data |-> nodes_data]
    ELSE LET id == Head(order)
             nd == nodes_data[id]
         IN IF nd.type = "ImageLoader" /\ Get(nd.settings, "filepath") # None
            THEN IF id \in okset
                 THEN Reacquire_keep(load_raw_image(m),
                                     [nodes_data EXCEPT ![id].settings =
                                         Put(@, "raw_image_id", m.next)],
                                     Tail(order), okset)
                 ELSE Reacquire_keep(load_raw_image_raises(m), nodes_data,
                                     Tail(order), okset)
            ELSE Reacquire_keep(m, nodes_data, Tail(order), okset)

RECURSIVE Reacquire(_, _, _, _)
Reacquire(m, nodes_data, order, okset) ==
    IF order = <<>> THEN [m |-> m, nodes_data |-> nodes_data]
    ELSE LET id == Head(order)
             nd == nodes_data[id]
         IN IF nd.type = "ImageLoader" /\ Get(nd.settings, "filepath") # None
            THEN IF id \in okset
                 THEN Reacquire(load_raw_image(m),
                                [nodes_data EXCEPT ![id].settings =
                                    Put(@, "raw_image_id", m.next)],
                                Tail(order), okset)
                 ELSE Reacquire(load_raw_image_raises(m),
                                [nodes_data EXCEPT ![id].settings =
                                    Put(@, "raw_image_id", None)],
                                Tail(order), okset)
            ELSE Reacquire(m, nodes_data, Tail(order), okset)

Model_from_dict(m, data, order, okset, env) ==
    LET m1 == Model_clear(m, order, env)
    IN IF m1.err THEN m1
       ELSE LET r == Reacquire(m1, data.nodes, data.order, okset)
                m2 == [r.m EXCEPT !.nodes = r.nodes_data, !.conns = data.connections]
            IN EmitConns(EmitNodes(m2, "node_added", data.order),
                         "connection_added", data.connections)

\* ----------------------------------------------------------------- Commands
NoId == "none"

SetCmd(m, i, c) == IF m.err THEN m ELSE [m EXCEPT !.stack[i] = c]

NewNodeData(node_type, position) ==
    [type |-> node_type, position |-> position, settings |-> EmptyDict]

Model_add_node(m, node_type, position, env) ==
    Model_add_node_with_data(m, env.uuid, NewNodeData(node_type, position))

AddNodeCommand(node_type, position) ==
    [kind |-> "AddNode", node_type |-> node_type, position |-> position,
     node_id |-> NoId]

AddNodeCommand_redo(m, i, env) ==
    LET c == m.stack[i] IN
    IF c.node_id = NoId
    THEN SetCmd(Model_add_node(m, c.node_type, c.position, env), i,
                [c EXCEPT !.node_id = env.uuid])
    ELSE Model_add_node_with_data(m, c.node_id, NewNodeData(c.node_type, c.position))

AddNodeCommand_undo(m, i, env) ==
    LET c == m.stack[i] IN
    IF c.node_id # NoId THEN Model_remove_node(m, c.node_id, env) ELSE m

RemoveNodeCommand(m, node_id) ==
    [kind |-> "RemoveNode", node_id |-> node_id, node_data |-> m.nodes[node_id],
     connections_data |-> SelectSeq(m.conns, LAMBDA c : Touches(c, node_id)),
     alias |-> FALSE]

RemoveNodeCommand_redo(m, i, env) ==
    Model_remove_node(m, m.stack[i].node_id, env)

RECURSIVE AddAll(_, _)
AddAll(m, cs) ==
    IF cs = <<>> THEN m ELSE AddAll(Model_add_connection(m, Head(cs)), Tail(cs))

RemoveNodeCommand_undo(m, i, env) ==
    LET c == m.stack[i]
        m1 == Model_add_node_with_data(m, c.node_id, c.node_data)
        m2 == SetCmd(m1, i, [c EXCEPT !.alias = TRUE])
    IN AddAll(m2, c.connections_data)

ChangeSettingCommand(m, node_id, key, new_value) ==
    [kind |-> "ChangeSetting", node_id |-> node_id, key |-> key,
     new_value |-> new_value, old_value |-> Get(m.nodes[node_id].settings, key)]

ChangeSettingCommand_redo(m, i, env) ==
    LET c == m.stack[i] IN Model_update_node_setting(m, c.node_id, c.key, c.new_value)

ChangeSettingCommand_undo(m, i, env) ==
    LET c == m.stack[i] IN Model_update_node_setting(m, c.node_id, c.key, c.old_value)

LoadImageCommand(m, node_id, new_filepath, new_raw_image_id) ==
    [kind |-> "LoadImage", node_id |-> node_id, new_filepath |-> new_filepath,
     initial_raw_image_id |-> new_raw_image_id, new_raw_image_id |-> None,
     old_filepath |-> Get(m.nodes[node_id].settings, "filepath"),
     old_raw_image_id |-> Get(m.nodes[node_id].settings, "raw_image_id")]

\* LoadImageCommand.redo if it did not consume _initial_raw_image_id.
LoadImageCommand_redo_reuse(m, i, env) ==
    LET c == m.stack[i]
        m1 == IF c.old_raw_image_id # None
              THEN DropThumbnail(release_raw_image(m, c.old_raw_image_id, env),
                                 c.old_raw_image_id)
              ELSE m
        m2 == SetCmd(m1, i, [c EXCEPT !.new_raw_image_id = c.initial_raw_image_id])
        m3 == Model_update_node_setting(m2, c.node_id, "filepath", c.new_filepath)
    IN Model_update_node_setting(m3, c.node_id, "raw_image_id",
                                 m2.stack[i].new_raw_image_id)

LoadImageCommand_redo(m, i, env) ==
    LET c == m.stack[i]
        m1 == IF c.old_raw_image_id # None
              THEN DropThumbnail(release_raw_image(m, c.old_raw_image_id, env),
                                 c.old_raw_image_id)
              ELSE m
        m2 == IF m1.err THEN m1
              ELSE IF c.initial_raw_image_id # None
              THEN SetCmd(m1, i, [c EXCEPT !.new_raw_image_id = c.initial_raw_image_id,
                                           !.initial_raw_image_id = None])
              ELSE IF env.ok
              THEN SetCmd(load_raw_image(m1), i, [c EXCEPT !.new_raw_image_id = m1.next])
              ELSE SetCmd(load_raw_image_raises(m1), i,
                          [c EXCEPT !.new_raw_image_id = None])
        m3 == Model_update_node_setting(m2, c.node_id, "filepath", c.new_filepath)
    IN Model_update_node_setting(m3, c.node_id, "raw_image_id",
                                 m2.stack[i].new_raw_image_id)

\* LoadImageCommand.undo if it reloaded the old file without releasing the
\* new handle.
LoadImageCommand_undo_keep(m, i, env) ==
    LET c == m.stack[i]
        m1 == SetCmd(m, i, [c EXCEPT !.new_raw_image_id = None])
        c1 == m1.stack[i]
        m2 == IF c1.old_filepath # None
              THEN IF env.ok
                   THEN SetCmd(load_raw_image(m1), i,
                               [c1 EXCEPT !.old_raw_image_id = m1.next])
                   ELSE SetCmd(m1, i, [c1 EXCEPT !.old_filepath = None,
                                                 !.old_raw_image_id = None])
              ELSE SetCmd(m1, i, [c1 EXCEPT !.old_raw_image_id = None])
        c2 == m2.stack[i]
        m3 == Model_update_node_setting(m2, c.node_id, "filepath", c2.old_filepath)
    IN Model_update_node_setting(m3, c.node_id, "raw_image_id", c2.old_raw_image_id)

\* LoadImageCommand.undo if a failed reload left old_filepath in the command,
\* to be tried again by the next undo.
LoadImageCommand_undo_retry(m, i, env) ==
    LET c == m.stack[i]
        m1 == IF c.new_raw_image_id # None
              THEN SetCmd(DropThumbnail(release_raw_image(m, c.new_raw_image_id, env),
                                        c.new_raw_image_id),
                          i, [c EXCEPT !.new_raw_image_id = None])
              ELSE m
        c1 == m1.stack[i]
        failed == ~m1.err /\ c1.old_filepath # None /\ ~env.ok
        m2 == IF m1.err THEN m1
              ELSE IF c1.old_filepath # None
              THEN IF env.ok
                   THEN SetCmd(load_raw_image(m1), i,
                               [c1 EXCEPT !.old_raw_image_id = m1.next])
                   ELSE SetCmd(load_raw_image_raises(m1), i,
                               [c1 EXCEPT !.old_raw_image_id = None])
              ELSE SetCmd(m1, i, [c1 EXCEPT !.old_raw_image_id = None])
        c2 == m2.stack[i]
        m3 == Model_update_node_setting(m2, c.node_id, "filepath",
                                        IF failed THEN None ELSE c2.old_filepath)
    IN Model_update_node_setting(m3, c.node_id, "raw_image_id", c2.old_raw_image_id)

LoadImageCommand_undo(m, i, env) ==
    LET c == m.stack[i]
        m1 == IF c.new_raw_image_id # None
              THEN SetCmd(DropThumbnail(release_raw_image(m, c.new_raw_image_id, env),
                                        c.new_raw_image_id),
                          i, [c EXCEPT !.new_raw_image_id = None])
              ELSE m
        c1 == m1.stack[i]
        m2 == IF m1.err THEN m1
              ELSE IF c1.old_filepath # None
              THEN IF env.ok
                   THEN SetCmd(load_raw_image(m1), i,
                               [c1 EXCEPT !.old_raw_image_id = m1.next])
                   ELSE SetCmd(load_raw_image_raises(m1), i,
                               [c1 EXCEPT !.old_filepath = None,
                                           !.old_raw_image_id = None])
              ELSE SetCmd(m1, i, [c1 EXCEPT !.old_raw_image_id = None])
        c2 == m2.stack[i]
        m3 == Model_update_node_setting(m2, c.node_id, "filepath", c2.old_filepath)
    IN Model_update_node_setting(m3, c.node_id, "raw_image_id", c2.old_raw_image_id)

AddConnectionCommand(conn_data) == [kind |-> "AddConnection", conn_data |-> conn_data]

AddConnectionCommand_redo(m, i, env) == Model_add_connection(m, m.stack[i].conn_data)

AddConnectionCommand_undo(m, i, env) == Model_remove_connection(m, m.stack[i].conn_data)

RemoveConnectionCommand(conn_data) ==
    [kind |-> "RemoveConnection", conn_data |-> conn_data]

RemoveConnectionCommand_redo(m, i, env) ==
    Model_remove_connection(m, m.stack[i].conn_data)

RemoveConnectionCommand_undo(m, i, env) ==
    Model_add_connection(m, m.stack[i].conn_data)

MoveNodeCommand(node_id, end_pos, start_pos) ==
    [kind |-> "MoveNode", node_id |-> node_id, end_pos |-> end_pos,
     start_pos |-> start_pos]

MoveNodeCommand_redo(m, i, env) ==
    LET c == m.stack[i] IN Model_update_node_position(m, c.node_id, c.end_pos)

MoveNodeCommand_undo(m, i, env) ==
    LET c == m.stack[i] IN Model_update_node_position(m, c.node_id, c.start_pos)

\* QUndoCommand's virtual redo() and undo(), dispatched on the Python class.
Command_redo(m, i, env) ==
    CASE m.stack[i].kind = "AddNode" -> AddNodeCommand_redo(m, i, env)
      [] m.stack[i].kind = "RemoveNode" -> RemoveNodeCommand_redo(m, i, env)
      [] m.stack[i].kind = "ChangeSetting" -> ChangeSettingCommand_redo(m, i, env)
      [] m.stack[i].kind = "LoadImage" -> LoadImageCommand_redo(m, i, env)
      [] m.stack[i].kind = "AddConnection" -> AddConnectionCommand_redo(m, i, env)
      [] m.stack[i].kind = "RemoveConnection" -> RemoveConnectionCommand_redo(m, i, env)
      [] m.stack[i].kind = "MoveNode" -> MoveNodeCommand_redo(m, i, env)

Command_undo(m, i, env) ==
    CASE m.stack[i].kind = "AddNode" -> AddNodeCommand_undo(m, i, env)
      [] m.stack[i].kind = "RemoveNode" -> RemoveNodeCommand_undo(m, i, env)
      [] m.stack[i].kind = "ChangeSetting" -> ChangeSettingCommand_undo(m, i, env)
      [] m.stack[i].kind = "LoadImage" -> LoadImageCommand_undo(m, i, env)
      [] m.stack[i].kind = "AddConnection" -> AddConnectionCommand_undo(m, i, env)
      [] m.stack[i].kind = "RemoveConnection" -> RemoveConnectionCommand_undo(m, i, env)
      [] m.stack[i].kind = "MoveNode" -> MoveNodeCommand_undo(m, i, env)

\* --------------------------------------------------------------- QUndoStack
\* Qt's QUndoStack as Controller uses it: no undo limit, no merging, no macros.
\* push() runs redo() first and then drops the commands past the cursor and
\* records the command; a Python exception in redo()/undo() does not stop the
\* C++ caller, which moves the cursor all the same.
Truncate(s, idx) == SubSeq(s, 1, idx)

\* QUndoStack.push if it kept the commands past the cursor.
QUndoStack_push_keep(m, cmd, env) ==
    LET m0 == [m EXCEPT !.stack = Append(@, cmd)]
        m1 == Command_redo(m0, Len(m0.stack), env)
    IN [m1 EXCEPT !.index = m.index + 1]

QUndoStack_push(m, cmd, env) ==
    LET m0 == [m EXCEPT !.stack = Append(Truncate(@, m.index), cmd)]
        m1 == Command_redo(m0, m.index + 1, env)
    IN [m1 EXCEPT !.index = m.index + 1]

\* QUndoStack.undo if it left the cursor where it was.
QUndoStack_undo_stay(m, env) ==
    IF m.index = 0 THEN m ELSE Command_undo(m, m.index, env)

QUndoStack_undo(m, env) ==
    IF m.index = 0 THEN m
    ELSE [Command_undo(m, m.index, env) EXCEPT !.index = m.index - 1]

QUndoStack_redo(m, env) ==
    IF m.index = Len(m.stack) THEN m
    ELSE [Command_redo(m, m.index + 1, env) EXCEPT !.index = m.index + 1]

\* ------------------------------------------------------ observation helpers
\* The settings with the value of raw_image_id blanked out.
AbsSettings(d) ==
    [k \in DOMAIN d |-> IF k = "raw_image_id" THEN None ELSE d[k]]

AbsNode(nd) ==
    [type |-> nd.type, position |-> nd.position, settings |-> AbsSettings(nd.settings)]

ConnSet(cs) == {cs[i] : i \in 1..Len(cs)}

AbsDocOf(ns, cs) == [nodes |-> [id \in DOMAIN ns |-> AbsNode(ns[id])], conns |-> ConnSet(cs)]

AbsDoc == AbsDocOf(nodes, connections)

\* The life of a LoadImageCommand on a node without a file: 1 when it has just
\* been pushed, 2 when the very next call undid it, 3 when the call after that
\* redid it, 0 at any other time.
Chain(name, m) ==
    CASE name = "push" ->
            IF m.stack[m.index].kind = "LoadImage" /\ m.stack[m.index].old_filepath = None
            THEN 1 ELSE 0
      [] name = "undo" -> IF lastop.chain = 1 /\ m.index = index - 1 THEN 2 ELSE 0
      [] name = "redo" -> IF lastop.chain = 2 /\ m.index = index + 1 THEN 3 ELSE 0

\* What the last call was, the class of the command it pushed and whether it raised.
Op(name, kind, m) ==
    [op |-> name, kind |-> kind, raised |-> m.err, chain |-> Chain(name, m)]

\* rt.phase: "P" while the run is successful pushes only, "U" while only undos
\* followed them, "R" while redos follow those undos, "X" (for good) when the
\* pattern is broken, "F" (for good) once a push has raised, "off" (for good)
\* when a run keeps no such books. rt.snap is the document after the pushes.
NoSnap == AbsDocOf(EmptyDict, <<>>)

RtPush(m) ==
    IF rt.phase = "off" THEN rt
    ELSE IF rt.phase = "F" \/ m.err THEN [phase |-> "F", snap |-> NoSnap]
    ELSE IF rt.phase = "P" THEN [phase |-> "P", snap |-> AbsDocOf(m.nodes, m.conns)]
    ELSE [phase |-> "X", snap |-> NoSnap]

RtUndo(m) ==
    IF m.index = index \/ rt.phase \in {"F", "X", "off"} THEN rt
    ELSE IF rt.phase \in {"P", "U"} THEN [rt EXCEPT !.phase = "U"]
    ELSE [phase |-> "X", snap |-> NoSnap]

RtRedo(m) ==
    IF m.index = index \/ rt.phase \in {"F", "X", "off"} THEN rt
    ELSE IF rt.phase \in {"U", "R"} THEN [rt EXCEPT !.phase = "R"]
    ELSE [phase |-> "X", snap |-> NoSnap]

\* ------------------------------------------------------------ the view
\* NodeScene keeps node_items (node id -> node item, here the item's class)
\* and connection_items (connection -> connection item); shown holds the
\* connections whose item is in the scene and attached to its two sockets.
EmptyScene == [on |-> TRUE, node_items |-> EmptyDict, connection_items |-> {}, shown |-> {}]

\* The sockets a node item of the class has: NodeImageLoader has outputs
\* only, NodeBlackLevels an input and an output for each label.
ItemSockets(type, is_input) ==
    IF ~is_input THEN {"RAW_out", "CFA_out", "Metadata_out"}
    ELSE IF type = "BlackLevels" THEN {"RAW_in", "CFA_in", "Metadata_in"} ELSE {}

\* NodeScene.on_node_added: the item's class is read from Model.nodes.
NodeScene_on_node_added(sc, m, id) ==
    IF id \in DOMAIN m.nodes /\ m.nodes[id].type \in NodeTypes
    THEN [sc EXCEPT !.node_items = Put(@, id, m.nodes[id].type)]
    ELSE sc

\* NodeScene.on_node_removed: NodeBase.delete_node deletes every connection
\* item attached to the node's sockets; connection_items keeps their keys.
NodeScene_on_node_removed(sc, id) ==
    IF id \in DOMAIN sc.node_items
    THEN [sc EXCEPT !.node_items = Del(@, id),
                    !.shown = {d \in @ : ~Touches(d, id)}]
    ELSE sc

\* NodeScene.on_connection_added: the end socket is an input socket, a
\* SingleConnectionNodeSocket, whose add_connection first deletes the
\* connection item it holds (NodeConnection.delete takes the item from both
\* sockets and from the scene, not from connection_items).
NodeScene_on_connection_added(sc, c) ==
    IF /\ c.from_node \in DOMAIN sc.node_items
       /\ c.to_node \in DOMAIN sc.node_items
       /\ c.from_socket \in ItemSockets(sc.node_items[c.from_node], FALSE)
       /\ c.to_socket \in ItemSockets(sc.node_items[c.to_node], TRUE)
    THEN [sc EXCEPT !.shown = {d \in @ : ~(d.to_node = c.to_node /\ d.to_socket = c.to_socket)}
                                 \cup {c},
                    !.connection_items = @ \cup {c}]
    ELSE sc

\* NodeScene.on_connection_removed.
NodeScene_on_connection_removed(sc, c) ==
    IF c \in sc.connection_items
    THEN [sc EXCEPT !.connection_items = @ \ {c}, !.shown = @ \ {c}]
    ELSE sc

\* The slots NodeScene.__init__ connects to the Model's signals run while
\* the signal is emitted, in the order of the emissions.
RECURSIVE View(_, _, _)
View(sc, m, i) ==
    IF ~sc.on \/ i > Len(m.log) THEN sc
    ELSE LET e == m.log[i]
             next == IF e.ev = "node_added" THEN NodeScene_on_node_added(sc, m, e.node)
                     ELSE IF e.ev = "node_removed" THEN NodeScene_on_node_removed(sc, e.node)
                     ELSE IF e.ev = "connection_added" THEN NodeScene_on_connection_added(sc, e.conn)
                     ELSE IF e.ev = "connection_removed"
                          THEN NodeScene_on_connection_removed(sc, e.conn)
                     ELSE sc
         IN View(next, m, i + 1)

Commit(m, op, newrt) ==
    /\ pushes' = IF op.op = "push" THEN pushes + 1 ELSE pushes
    /\ nodes' = m.nodes
    /\ connections' = m.conns
    /\ thumbnail_cache' = m.cache
    /\ stack' = m.stack
    /\ index' = m.index
    /\ live' = m.live
    /\ nextHandle' = m.next
    /\ misreleased' = m.misreleased
    /\ strictBackend' = strictBackend
    /\ lastop' = op
    /\ rt' = newrt
    /\ scene' = View(scene, m, 1)
    /\ UNCHANGED <<emitted, file, calls, test>>

Env(ok, uuid) == [ok |-> ok, strict |-> strictBackend, uuid |-> uuid]

Push(cmd, env) ==
    LET m == QUndoStack_push(Machine, cmd, env)
    IN Commit(m, Op("push", cmd.kind, m), RtPush(m))

\* The call did not reach QUndoStack.push: nothing but the outcome changes.
Reject(raised) ==
    Commit(Machine, [op |-> "reject", kind |-> NoId, raised |-> raised, chain |-> 0], rt)

\* --------------------------------------------------------------- Controller
Controller_add_node(node_type, position, uuid) ==
    /\ uuid \notin DOMAIN nodes
    /\ Push(AddNodeCommand(node_type, position), Env(TRUE, uuid))

Controller_remove_node(node_id) ==
    IF node_id \in DOMAIN nodes
    THEN Push(RemoveNodeCommand(Machine, node_id), Env(TRUE, NoId))
    ELSE Reject(TRUE)

\* Controller.update_node_setting if it released the node's handle before
\* trying the load of the new file.
Controller_update_node_setting_release_first(node_id, key, value, ok) ==
    IF node_id \notin DOMAIN nodes
    THEN Reject(FALSE)
    ELSE IF nodes[node_id].type = "ImageLoader" /\ key = "filepath"
    THEN LET h == Get(nodes[node_id].settings, "raw_image_id")
             r == IF h = None THEN Machine
                  ELSE DropThumbnail(release_raw_image(Machine, h, Env(TRUE, NoId)), h)
             m0 == load_raw_image(r)
             cmd == LoadImageCommand(m0, node_id, value, nextHandle)
             m == QUndoStack_push(m0, cmd, Env(TRUE, NoId))
         IN IF ok
            THEN Commit(m, [Op("push", cmd.kind, m) EXCEPT !.raised = FALSE], RtPush(m))
            ELSE Commit([r EXCEPT !.err = FALSE],
                        [op |-> "reject", kind |-> NoId, raised |-> FALSE, chain |-> 0], rt)
    ELSE Push(ChangeSettingCommand(Machine, node_id, key, value), Env(TRUE, NoId))

Controller_update_node_setting(node_id, key, value, ok) ==
    IF node_id \notin DOMAIN nodes
    THEN Reject(FALSE)
    ELSE IF nodes[node_id].type = "ImageLoader" /\ key = "filepath"
    THEN IF ok
         THEN LET m0 == load_raw_image(Machine)
                  cmd == LoadImageCommand(m0, node_id, value, nextHandle)
                  m == QUndoStack_push(m0, cmd, Env(TRUE, NoId))
              IN Commit(m, [Op("push", cmd.kind, m) EXCEPT !.raised = FALSE], RtPush(m))
         ELSE Reject(FALSE)
    ELSE Push(ChangeSettingCommand(Machine, node_id, key, value), Env(TRUE, NoId))

Controller_add_connection(from_node, from_socket, to_node, to_socket) ==
    Push(AddConnectionCommand(Conn(from_node, from_socket, to_node, to_socket)),
         Env(TRUE, NoId))

Controller_remove_connection(conn_data) ==
    Push(RemoveConnectionCommand(conn_data), Env(TRUE, NoId))

Controller_move_node(node_id, end_pos, start_pos) ==
    Push(MoveNodeCommand(node_id, end_pos, start_pos), Env(TRUE, NoId))

\* The Edit menu's undo and redo actions.
Undo(ok) ==
    LET m == QUndoStack_undo(Machine, Env(ok, NoId))
    IN Commit(m, Op("undo", NoId, m), RtUndo(m))

Redo(ok) ==
    LET m == QUndoStack_redo(Machine, Env(ok, NoId))
    IN Commit(m, Op("redo", NoId, m), RtRedo(m))

\* _ImageLoaderPanel.update_panel_info for a node whose handle the backend
\* still knows: the thumbnail is fetched and cached under the handle.
UpdatePanelInfo(node_id) ==
    /\ node_id \in DOMAIN nodes
    /\ Get(nodes[node_id].settings, "raw_image_id") \in live
    /\ Get(nodes[node_id].settings, "raw_image_id") \notin thumbnail_cache
    /\ thumbnail_cache' = thumbnail_cache \cup {Get(nodes[node_id].settings, "raw_image_id")}
    /\ UNCHANGED <<nodes, connections, stack, index, live, nextHandle,
                   misreleased, strictBackend, pushes, lastop, rt, emitted, file, calls,
                   test, scene>>

\* ------------------------------------------------------------------- inputs
ConnsOver(ids) ==
    {Conn(fn, fs, tn, ts) : fn \in ids, fs \in OutSockets, tn \in ids, ts \in InSockets}

\* What the callers in nodes.py and node_panels.py pass to the Controller.
\* NodeBase.contextMenuEvent: the node item exists.
GuiRemoveNode(n) == n \in DOMAIN nodes

\* NodeImageLoader.select_file and _ImageLoaderPanel._on_select_file: the
\* filepath of an ImageLoader node.
GuiSelectFile(n) == n \in DOMAIN nodes /\ nodes[n].type = "ImageLoader"

\* A settings panel changes a setting of the node it shows.
GuiSetting(n) == n \in DOMAIN nodes

\* NodeScene.mouseReleaseEvent: an output socket of one node dropped on an input
\* socket of another node; only BlackLevels nodes have input sockets.
GuiAddConnection(c) ==
    /\ c.from_node \in DOMAIN nodes
    /\ c.to_node \in DOMAIN nodes
    /\ c.from_node # c.to_node
    /\ nodes[c.to_node].type = "BlackLevels"

\* NodeScene.keyPressEvent: a connection item that is selected.
GuiRemoveConnection(c) == InList(c, connections)

\* NodeBase.mouseReleaseEvent: the item was dragged away from where it was.
GuiMoveNode(n, end_pos, start_pos) ==
    /\ n \in DOMAIN nodes
    /\ start_pos = nodes[n].position
    /\ end_pos # start_pos

\* The bounds of a run: the commands pushed and the handles issued.
Within(maxp, handles) == pushes' <= maxp /\ nextHandle' <= handles + 1

\* ------------------------------------------------------------ specifications
Machine0 ==
    [nodes |-> EmptyDict, conns |-> <<>>, cache |-> {}, stack |-> <<>>, index |-> 0,
     live |-> {}, next |-> 1, misreleased |-> {}, err |-> FALSE, log |-> <<>>]

\* The application after start: an empty Model, or the Model that
\* Controller.load_project has filled from a project file; an empty QUndoStack.
\* With view, the NodeScene made before the project was read is followed.
Launched(project, books, view) ==
    /\ strictBackend \in BOOLEAN
    /\ LET m == Model_from_dict(Machine0, project, <<>>, {},
                                [ok |-> TRUE, strict |-> strictBackend, uuid |-> NoId])
       IN /\ nodes = m.nodes
          /\ connections = m.conns
          /\ thumbnail_cache = m.cache
          /\ stack = m.stack
          /\ index = m.index
          /\ live = m.live
          /\ nextHandle = m.next
          /\ misreleased = m.misreleased
          /\ pushes = 0
          /\ lastop = [op |-> "init", kind |-> NoId, raised |-> m.err, chain |-> 0]
          /\ rt = IF books THEN [phase |-> "P", snap |-> AbsDocOf(m.nodes, m.conns)]
                  ELSE [phase |-> "off", snap |-> NoSnap]
          /\ emitted = <<>>
          /\ file = <<>>
          /\ calls = 0
          /\ test = <<>>
          /\ scene = IF view THEN View(EmptyScene, m, 1) ELSE NoScene

Started(project, books) == Launched(project, books, FALSE)

EmptyProject == [nodes |-> EmptyDict, order |-> <<>>, connections |-> <<>>]

\* A project file with an ImageLoader and a BlackLevels node, no file chosen.
EditProject ==
    [nodes |-> [id \in {"n1", "n2"} |->
                  NewNodeData(IF id = "n1" THEN "ImageLoader" ELSE "BlackLevels", 0)],
     order |-> <<"n1", "n2">>, connections |-> <<>>]

Init == Started(EditProject, TRUE)

\* Every kind of edit on a small document.
Next ==
    \/ \E u \in NodeIds : Controller_add_node("BlackLevels", 0, u) /\ Within(MaxPushes, MaxHandles)
    \/ \E n \in NodeIds : GuiRemoveNode(n) /\ Controller_remove_node(n) /\ Within(MaxPushes, MaxHandles)
    \/ \E n \in NodeIds, p \in Paths, ok \in BOOLEAN :
          /\ GuiSelectFile(n)
          /\ Controller_update_node_setting(n, "filepath", p, ok)
          /\ Within(MaxPushes, MaxHandles)
    \/ \E n \in NodeIds, k \in GenericKeys, v \in Gains :
          /\ GuiSetting(n)
          /\ Controller_update_node_setting(n, k, v, TRUE)
          /\ Within(MaxPushes, MaxHandles)
    \/ \E c \in ConnsOver(NodeIds) :
          /\ GuiAddConnection(c)
          /\ Controller_add_connection(c.from_node, c.from_socket, c.to_node, c.to_socket)
          /\ Within(MaxPushes, MaxHandles)
    \/ \E c \in ConnsOver(NodeIds) :
          GuiRemoveConnection(c) /\ Controller_remove_connection(c) /\ Within(MaxPushes, MaxHandles)
    \/ \E n \in NodeIds, e \in Positions, s \in Positions :
          GuiMoveNode(n, e, s) /\ Controller_move_node(n, e, s) /\ Within(MaxPushes, MaxHandles)
    \/ \E ok \in BOOLEAN : Undo(ok) /\ Within(MaxPushes, MaxHandles)
    \/ \E ok \in BOOLEAN : Redo(ok) /\ Within(MaxPushes, MaxHandles)

Spec == Init /\ [][Next]_vars

\* The life of image handles: ImageLoader nodes, their files and their panels.
InitRes == Started(EmptyProject, FALSE)

NextRes ==
    \/ \E u \in ResIds : Controller_add_node("ImageLoader", 0, u) /\ Within(MaxPushesRes, MaxHandlesRes)
    \/ \E n \in ResIds : GuiRemoveNode(n) /\ Controller_remove_node(n) /\ Within(MaxPushesRes, MaxHandlesRes)
    \/ \E n \in ResIds, p \in Paths, ok \in BOOLEAN :
          /\ GuiSelectFile(n)
          /\ Controller_update_node_setting(n, "filepath", p, ok)
          /\ Within(MaxPushesRes, MaxHandlesRes)
    \/ \E ok \in BOOLEAN : Undo(ok) /\ Within(MaxPushesRes, MaxHandlesRes)
    \/ \E ok \in BOOLEAN : Redo(ok) /\ Within(MaxPushesRes, MaxHandlesRes)
    \/ \E n \in ResIds : UpdatePanelInfo(n)

SpecRes == InitRes /\ [][NextRes]_vars

\* Wiring a graph: a project with an ImageLoader and two BlackLevels nodes.
GraphProject ==
    [nodes |-> [id \in {"n1", "n2", "n3"} |->
                  NewNodeData(IF id = "n1" THEN "ImageLoader" ELSE "BlackLevels", 0)],
     order |-> <<"n1", "n2", "n3">>, connections |-> <<>>]

InitGraph == Started(GraphProject, FALSE)

NextGraph ==
    \/ \E c \in ConnsOver(NodeIds) :
          /\ GuiAddConnection(c)
          /\ Controller_add_connection(c.from_node, c.from_socket, c.to_node, c.to_socket)
          /\ Within(MaxPushesGraph, 0)
    \/ \E c \in ConnsOver(NodeIds) :
          GuiRemoveConnection(c) /\ Controller_remove_connection(c) /\ Within(MaxPushesGraph, 0)
    \/ \E n \in NodeIds :
          GuiRemoveNode(n) /\ Controller_remove_node(n) /\ Within(MaxPushesGraph, 0)
    \/ Undo(TRUE) /\ Within(MaxPushesGraph, 0)
    \/ Redo(TRUE) /\ Within(MaxPushesGraph, 0)

SpecGraph == InitGraph /\ [][NextGraph]_vars

\* Wiring the same graph while the NodeScene follows the Model.
InitView == Launched(GraphProject, FALSE, TRUE)

SpecView == InitView /\ [][NextGraph]_vars

\* The application after Controller.load_project has read a project file:
\* okset holds the ImageLoader nodes whose file the backend can load again.
Opened(project, okset) ==
    /\ strictBackend \in BOOLEAN
    /\ LET m == Model_from_dict(Machine0, project, <<>>, okset,
                                [ok |-> TRUE, strict |-> strictBackend, uuid |-> NoId])
       IN /\ nodes = m.nodes
          /\ connections = m.conns
          /\ thumbnail_cache = m.cache
          /\ stack = m.stack
          /\ index = m.index
          /\ live = m.live
          /\ nextHandle = m.next
          /\ misreleased = m.misreleased
          /\ pushes = 0
          /\ lastop = [op |-> "init", kind |-> NoId, raised |-> m.err, chain |-> 0]
          /\ rt = [phase |-> "off", snap |-> NoSnap]
          /\ emitted = <<>>
          /\ file = <<>>
          /\ calls = 0
          /\ test = <<>>
          /\ scene = NoScene

\* A saved project with two ImageLoader nodes, each with a file chosen; the
\* file still holds the handles of the session that saved it.
LoadedProject ==
    [nodes |-> [id \in ResIds |->
                  [NewNodeData("ImageLoader", 0) EXCEPT !.settings =
                      Put(Put(EmptyDict, "filepath", 101), "raw_image_id",
                          IF id = "n1" THEN 1 ELSE 2)]],
     order |-> <<"n1", "n2">>, connections |-> <<>>]

\* Editing a project whose images were loaded when it was opened: the file of
\* n1 loads, the file of n2 may have gone.
InitLoaded == \E okset \in {{"n1"}, ResIds} : Opened(LoadedProject, okset)

NextLoaded ==
    \/ \E n \in ResIds :
          GuiRemoveNode(n) /\ Controller_remove_node(n) /\ Within(MaxPushesLoaded, MaxHandlesLoaded)
    \/ \E n \in ResIds, p \in Paths, ok \in BOOLEAN :
          /\ GuiSelectFile(n)
          /\ Controller_update_node_setting(n, "filepath", p, ok)
          /\ Within(MaxPushesLoaded, MaxHandlesLoaded)
    \/ \E ok \in BOOLEAN : Undo(ok) /\ Within(MaxPushesLoaded, MaxHandlesLoaded)
    \/ \E ok \in BOOLEAN : Redo(ok) /\ Within(MaxPushesLoaded, MaxHandlesLoaded)
    \/ \E n \in ResIds : UpdatePanelInfo(n)

SpecLoaded == InitLoaded /\ [][NextLoaded]_vars

\* The sockets of a BlackLevels node for its RAW and CFA data: NodeBase names
\* them "<label>_in" and "<label>_out" and tags each with its SocketType.
ApiSockets == {"RAW_out", "RAW_in", "CFA_out", "CFA_in"}
SocketTypeOf(s) == IF s \in {"RAW_out", "RAW_in"} THEN "Raw" ELSE "CFA"
IsInput(s) == s \in {"RAW_in", "CFA_in"}

\* Any pair of sockets of the two BlackLevels nodes, as a caller other than
\* NodeScene.mouseReleaseEvent may pass it to Controller.add_connection.
ApiConns == {Conn("n2", fs, "n3", ts) : fs \in ApiSockets, ts \in ApiSockets}

\* What NodeScene.mouseReleaseEvent requires of the two sockets.
SocketsMatch(c) ==
    /\ SocketTypeOf(c.from_socket) = SocketTypeOf(c.to_socket)
    /\ ~IsInput(c.from_socket)
    /\ IsInput(c.to_socket)

\* Connections made through the Controller's interface, not through the scene.
InitApi == Started(GraphProject, FALSE)

NextApi ==
    \/ \E c \in ApiConns :
          /\ Controller_add_connection(c.from_node, c.from_socket, c.to_node, c.to_socket)
          /\ Within(MaxPushesApi, 0)
    \/ \E c \in ApiConns :
          GuiRemoveConnection(c) /\ Controller_remove_connection(c) /\ Within(MaxPushesApi, 0)
    \/ Undo(TRUE) /\ Within(MaxPushesApi, 0)
    \/ Redo(TRUE) /\ Within(MaxPushesApi, 0)

SpecApi == InitApi /\ [][NextApi]_vars

\* ------------------------------------------- the Model called directly
\* Model.to_dict, and the file json.dump makes of it: order is the order in
\* which the nodes dict yields its keys.
Model_to_dict(m, order) ==
    [nodes |-> m.nodes, order |-> order, connections |-> m.conns]

\* The orders in which a dict with the keys S may yield them.
Orders(S) ==
    {o \in [1..Cardinality(S) -> S] : \A i, j \in 1..Cardinality(S) : o[i] = o[j] => i = j}

\* A caller of one Model method: the method's effects up to the point where
\* it returned or raised, and what it emitted and called on the way.
ModelCall(name, m) ==
    /\ calls < MaxCalls
    /\ m.next <= MaxHandlesModel + 1
    /\ calls' = calls + 1
    /\ nodes' = m.nodes
    /\ connections' = m.conns
    /\ thumbnail_cache' = m.cache
    /\ stack' = m.stack
    /\ index' = m.index
    /\ live' = m.live
    /\ nextHandle' = m.next
    /\ misreleased' = m.misreleased
    /\ lastop' = [op |-> name, kind |-> NoId, raised |-> m.err, chain |-> 0]
    /\ emitted' = m.log
    /\ scene' = View(scene, m, 1)
    /\ UNCHANGED <<strictBackend, pushes, rt, file, test>>

Call_add_node(node_type, position, uuid) ==
    /\ uuid \notin DOMAIN nodes
    /\ ModelCall("add_node", Model_add_node(Machine, node_type, position, Env(TRUE, uuid)))

Call_add_node_with_data(id, data) ==
    ModelCall("_add_node_with_data", Model_add_node_with_data(Machine, id, data))

Call_remove_node(id) ==
    ModelCall("remove_node", Model_remove_node(Machine, id, Env(TRUE, NoId)))

Call_update_node_setting(id, key, value) ==
    ModelCall("update_node_setting", Model_update_node_setting(Machine, id, key, value))

Call_update_node_position(id, position) ==
    ModelCall("update_node_position", Model_update_node_position(Machine, id, position))

Call_add_connection(c) ==
    ModelCall("add_connection", Model_add_connection(Machine, c))

Call_remove_connection(c) ==
    ModelCall("remove_connection", Model_remove_connection(Machine, c))

\* Controller.save_project: the record of Model.to_dict goes to the file.
Controller_save_project(order) ==
    /\ calls < MaxCalls
    /\ order \in Orders(DOMAIN nodes)
    /\ calls' = calls + 1
    /\ file' = <<Model_to_dict(Machine, order)>>
    /\ lastop' = [op |-> "save_project", kind |-> NoId, raised |-> FALSE, chain |-> 0]
    /\ emitted' = <<>>
    /\ UNCHANGED <<nodes, connections, thumbnail_cache, stack, index, live, nextHandle,
                   misreleased, strictBackend, pushes, rt, test, scene>>

\* Controller.load_project: Model.from_dict on the record read from the file.
Controller_load_project(order, okset) ==
    /\ file # <<>>
    /\ order \in Orders(DOMAIN nodes)
    /\ ModelCall("load_project",
                 Model_from_dict(Machine, file[1], order, okset, Env(TRUE, NoId)))

\* A project with an ImageLoader whose file is chosen, wired to a BlackLevels node.
DocIds == {"n1", "n2"}

DocProject ==
    [nodes |-> [id \in DocIds |->
                  IF id = "n1"
                  THEN [NewNodeData("ImageLoader", 0) EXCEPT !.settings =
                           Put(Put(EmptyDict, "filepath", 101), "raw_image_id", 1)]
                  ELSE NewNodeData("BlackLevels", 0)],
     order |-> <<"n1", "n2">>,
     connections |-> <<Conn("n1", "RAW_out", "n2", "RAW_in")>>]

InitModel == Opened(DocProject, {"n1"})

NextModel ==
    \/ \E t \in NodeTypes, u \in DocIds : Call_add_node(t, 0, u)
    \/ \E id \in DocIds, t \in NodeTypes : Call_add_node_with_data(id, NewNodeData(t, 0))
    \/ \E id \in DocIds : Call_remove_node(id)
    \/ \E id \in DocIds, k \in GenericKeys, v \in Gains \cup {None} :
           Call_update_node_setting(id, k, v)
    \/ \E id \in DocIds, p \in Positions : Call_update_node_position(id, p)
    \/ \E c \in ConnsOver(DocIds) : Call_add_connection(c)
    \/ \E c \in ConnsOver(DocIds) : Call_remove_connection(c)
    \/ \E o \in Orders(DOMAIN nodes) : Controller_save_project(o)
    \/ \E o \in Orders(DOMAIN nodes), okset \in SUBSET {"n1"} : Controller_load_project(o, okset)
    \/ \E n \in DocIds : UpdatePanelInfo(n)

SpecModel == InitModel /\ [][NextModel]_vars

\* Editing the opened document of above through the Controller: a node that
\* holds a handle and has a connection is removed, restored, removed again.
InitDoc == Opened(DocProject, {"n1"})

NextDoc ==
    \/ \E n \in DocIds :
          GuiRemoveNode(n) /\ Controller_remove_node(n) /\ Within(MaxPushesDoc, MaxHandlesDoc)
    \/ \E n \in DocIds, p \in Paths, ok \in BOOLEAN :
          /\ GuiSelectFile(n)
          /\ Controller_update_node_setting(n, "filepath", p, ok)
          /\ Within(MaxPushesDoc, MaxHandlesDoc)
    \/ \E c \in ConnsOver(DocIds) :
          /\ GuiAddConnection(c)
          /\ Controller_add_connection(c.from_node, c.from_socket, c.to_node, c.to_socket)
          /\ Within(MaxPushesDoc, MaxHandlesDoc)
    \/ \E c \in ConnsOver(DocIds) :
          GuiRemoveConnection(c) /\ Controller_remove_connection(c) /\ Within(MaxPushesDoc, MaxHandlesDoc)
    \/ \E ok \in BOOLEAN : Undo(ok) /\ Within(MaxPushesDoc, MaxHandlesDoc)
    \/ \E ok \in BOOLEAN : Redo(ok) /\ Within(MaxPushesDoc, MaxHandlesDoc)

SpecDoc == InitDoc /\ [][NextDoc]_vars

\* Model.clear called on its own.
Call_clear(order) ==
    /\ order \in Orders(DOMAIN nodes)
    /\ ModelCall("clear", Model_clear(Machine, order, Env(TRUE, NoId)))

\* The same document edited, saved and opened again in one session:
\* MainWindow.open_project calls Controller.load_project on the Controller
\* whose QUndoStack holds the commands of the edits made so far.
NextReopen ==
    \/ \E n \in DocIds :
          GuiRemoveNode(n) /\ Controller_remove_node(n) /\ Within(MaxPushesReopen, MaxHandlesModel)
    \/ \E n \in DocIds, p \in Paths :
          /\ GuiSelectFile(n)
          /\ Controller_update_node_setting(n, "filepath", p, TRUE)
          /\ Within(MaxPushesReopen, MaxHandlesModel)
    \/ Undo(TRUE) /\ Within(MaxPushesReopen, MaxHandlesModel)
    \/ Redo(TRUE) /\ Within(MaxPushesReopen, MaxHandlesModel)
    \/ \E o \in Orders(DOMAIN nodes) : Controller_save_project(o)
    \/ \E o \in Orders(DOMAIN nodes), okset \in SUBSET {"n1"} : Controller_load_project(o, okset)
    \/ \E o \in Orders(DOMAIN nodes) : Call_clear(o)

SpecReopen == InitDoc /\ [][NextReopen]_vars

\* ------------------------------------------------- the test of the backend
\* The names that backend.py defines; rust_backend is imported as a module and
\* none of its other functions is re-exported.
BackendExports ==
    {"rust_backend", "get_libraw_version", "load_raw_image", "release_raw_image",
     "get_thumbnail", "get_metadata"}

\* "from mpr_photo_editor.backend import name" raises ImportError unless the
\* module defines the name.
ImportRaises(name) == name \notin BackendExports

PixelValues == {0, 127, 128, 255}
PixelLists == UNION {[1..n -> PixelValues] : n \in 0..MaxPixels}

\* tests/test_backend.py with the list original: the import in its first line
\* runs when the module is loaded, before test_invert_image can be called.
test_invert_image(original) ==
    /\ test = <<>>
    /\ test' = <<[original |-> original, raised |-> ImportRaises("invert_image"),
                  result |-> <<>>]>>
    /\ UNCHANGED <<nodes, connections, thumbnail_cache, stack, index, live, nextHandle,
                   misreleased, strictBackend, pushes, lastop, rt, emitted, file, calls,
                   scene>>

InitBackend == Started(EmptyProject, FALSE)

NextBackend == \E original \in PixelLists : test_invert_image(original)

SpecBackend == InitBackend /\ [][NextBackend]_vars

\* ------------------------------------------------------------------- claims
RawId(ns, id) == Get(ns[id].settings, "raw_image_id")

\* C1: after successful pushes only, n undos followed by n redos leave the
\* nodes, connections and settings as they were right after the pushes, the
\* values of raw_image_id aside.
RoundTripLaw ==
    (rt.phase = "R" /\ index = Len(stack)) => AbsDoc = rt.snap

\* C2: no handle is released twice: release_raw_image is never called with a
\* handle that the backend does not hold any more.
NoDoubleRelease == misreleased = {}

\* C3: after every completed push, undo or redo, each raw_image_id in a node's
\* settings that is not None is a handle that was loaded and not yet released.
NoDanglingHandle ==
    \A id \in DOMAIN nodes : RawId(nodes, id) # None => RawId(nodes, id) \in live

\* C4: a command whose redo raises when it is pushed is not recorded: the
\* stack and the cursor are as before the push.
FailedPushNotRecorded ==
    [][(pushes' = pushes + 1 /\ lastop'.raised) => (stack' = stack /\ index' = index)]_vars

\* C5: a push with the cursor behind the end of the history discards every
\* command from the cursor on and makes the new command the last one; a redo
\* right after a push changes neither the document nor the history.
RedoTruncation ==
    [][/\ (pushes' = pushes + 1 /\ index < Len(stack)) =>
             /\ Len(stack') = index + 1
             /\ index' = Len(stack')
             /\ stack'[index'].kind = lastop'.kind
       /\ (lastop.op = "push" /\ lastop'.op = "redo") =>
             UNCHANGED <<nodes, connections, thumbnail_cache, stack, index, live,
                         nextHandle, misreleased>>]_vars

\* A command was pushed over an undone one, which the history has dropped.
TruncatedByPush ==
    lastop.op = "push" /\ Len(stack) < pushes /\ index = Len(stack) /\ index > 0

\* What a call of the command's undo() or redo() leaves behind.
Effect(m) ==
    /\ nodes' = m.nodes
    /\ connections' = m.conns
    /\ thumbnail_cache' = m.cache
    /\ stack' = m.stack
    /\ live' = m.live
    /\ nextHandle' = m.next

\* C6: undo at cursor 0 and redo at the end of the history change nothing;
\* otherwise undo runs undo() of the command before the cursor and moves the
\* cursor down by one, redo runs redo() of the command at the cursor and moves
\* it up by one; the cursor stays within 0..length.
CursorMovement ==
    [][/\ 0 <= index' /\ index' <= Len(stack')
       /\ lastop'.op = "undo" =>
             IF index = 0
             THEN UNCHANGED <<nodes, connections, thumbnail_cache, stack, index, live>>
             ELSE /\ index' = index - 1
                  /\ \E ok \in BOOLEAN : Effect(Command_undo(Machine, index, Env(ok, NoId)))
       /\ lastop'.op = "redo" =>
             IF index = Len(stack)
             THEN UNCHANGED <<nodes, connections, thumbnail_cache, stack, index, live>>
             ELSE /\ index' = index + 1
                  /\ \E ok \in BOOLEAN : Effect(Command_redo(Machine, index + 1, Env(ok, NoId)))]_vars

\* A redo that re-applied the first of two undone commands.
RedoneInTheMiddle == lastop.op = "redo" /\ index = 1 /\ Len(stack) = 2

\* The connections that touch a node.
Incident(cs, id) == {c \in ConnSet(cs) : Touches(c, id)}

\* C7: RemoveNodeCommand's redo removes the node and the connections that touch
\* it and nothing else, and its undo puts back the node with the same id, type,
\* position and settings and exactly the connections that were removed.
RemoveNodeRestores ==
    [][/\ ((pushes' = pushes + 1 /\ lastop'.kind = "RemoveNode")
           \/ (lastop'.op = "redo" /\ index' = index + 1
               /\ stack[index + 1].kind = "RemoveNode")) =>
             LET c == stack'[index'] IN
             /\ c.node_id \in DOMAIN nodes
             /\ nodes' = Del(nodes, c.node_id)
             /\ ConnSet(connections') = ConnSet(connections) \ Incident(connections, c.node_id)
             /\ c.node_data = nodes[c.node_id]
             /\ ConnSet(c.connections_data) = Incident(connections, c.node_id)
       /\ (lastop'.op = "undo" /\ index' = index - 1 /\ stack[index].kind = "RemoveNode") =>
             LET c == stack[index] IN
             /\ c.node_id \notin DOMAIN nodes
             /\ nodes' = Put(nodes, c.node_id, c.node_data)
             /\ ConnSet(connections') = ConnSet(connections) \cup ConnSet(c.connections_data)
             /\ Len(connections') = Len(connections) + Len(c.connections_data)]_vars

\* C8: no single-connection socket (the input sockets) is an endpoint of more
\* than one connection of the document.
SingleConnectionSockets ==
    \A c1, c2 \in ConnSet(connections) :
        (c1.to_node = c2.to_node /\ c1.to_socket = c2.to_socket) => c1 = c2

AB == Conn("n1", "RAW_out", "n2", "RAW_in")
AC == Conn("n1", "RAW_out", "n3", "RAW_in")

\* A.RAW_out was connected to B.RAW_in and then to C.RAW_in, and nothing else.
ConnectedTwice ==
    /\ pushes = 2 /\ index = 2 /\ Len(stack) = 2
    /\ stack[1] = AddConnectionCommand(AB)
    /\ stack[2] = AddConnectionCommand(AC)

\* C9 as stated: after connecting A.RAW_out to B.RAW_in and then to C.RAW_in,
\* only the second connection is in the document.
OnlySecondConnectionStays == ConnectedTwice => ConnSet(connections) = {AC}

\* C9 as amended: after connecting A.RAW_out to B.RAW_in and then to C.RAW_in,
\* both connections are in the document, in that order.
BothConnectionsStay == ConnectedTwice => connections = <<AB, AC>>

\* C10: a LoadImageCommand on a node without a file stores the new filepath and
\* the handle the Controller has loaded; undo right after it releases that
\* handle and sets filepath and raw_image_id to None; a redo right after that
\* sets the filepath again and, when the backend loads the path again, stores
\* the handle of that load, one the backend has not issued before.
LoadImageLifeCycle ==
    [][/\ nextHandle' >= nextHandle
       /\ lastop'.chain = 1 /\ pushes' = pushes + 1 =>
             LET c == stack'[index'] IN
             /\ Get(nodes'[c.node_id].settings, "filepath") = c.new_filepath
             /\ RawId(nodes', c.node_id) = nextHandle
             /\ nextHandle' = nextHandle + 1
             /\ RawId(nodes', c.node_id) \in live'
       /\ lastop'.chain = 2 /\ index' = index - 1 =>
             LET c == stack[index] IN
             /\ c.new_raw_image_id \in live
             /\ live' = live \ {c.new_raw_image_id}
             /\ Get(nodes'[c.node_id].settings, "filepath") = None
             /\ RawId(nodes', c.node_id) = None
       /\ lastop'.chain = 3 /\ index' = index + 1 =>
             LET c == stack[index + 1] IN
             /\ Get(nodes'[c.node_id].settings, "filepath") = c.new_filepath
             /\ RawId(nodes', c.node_id) =
                   IF nextHandle' = nextHandle THEN None ELSE nextHandle
             /\ RawId(nodes', c.node_id) # None => RawId(nodes', c.node_id) \in live']_vars

\* The one LoadImageCommand of the run was undone and redone with a new handle.
ReloadedByRedo ==
    /\ lastop.chain = 3 /\ pushes = 2 /\ index = 2 /\ nextHandle = 3
    /\ RawId(nodes, stack[2].node_id) = 2 /\ live = {2}

FilePath(ns, id) == Get(ns[id].settings, "filepath")

\* C11: a handle is owned by at most one node: no two distinct nodes have the
\* same non-null raw_image_id in their settings, in any reachable state.
OneOwnerPerHandle ==
    \A a, b \in DOMAIN nodes :
        (a # b /\ RawId(nodes, a) # None) => RawId(nodes, a) # RawId(nodes, b)

TwoOwners ==
    /\ lastop.op = "push" /\ lastop.kind = "LoadImage"
    /\ ResIds \subseteq DOMAIN nodes
    /\ \A id \in ResIds : RawId(nodes, id) \in live

\* The steps of a LoadImageCommand: Controller.update_node_setting pushes it,
\* the Edit menu redoes the command after the cursor or undoes the one at it.
LoadPushed == pushes' = pushes + 1 /\ lastop'.kind = "LoadImage"
LoadRedone ==
    lastop'.op = "redo" /\ index' = index + 1 /\ stack[index'].kind = "LoadImage"
LoadUndone ==
    lastop'.op = "undo" /\ index' = index - 1 /\ stack[index].kind = "LoadImage"

\* C12: the pre-validated handle is used by one apply only: the redo run by the
\* push installs it in the node and clears _initial_raw_image_id, and every
\* later redo finds _initial_raw_image_id cleared and writes the handle of a new
\* backend load (or None when that load failed) to the node.
PreValidatedHandleUsedOnce ==
    [][ /\ LoadPushed =>
              LET c == stack'[index']
              IN /\ c.initial_raw_image_id = None
                 /\ c.new_raw_image_id = nextHandle
                 /\ RawId(nodes', c.node_id) = nextHandle
        /\ LoadRedone =>
              LET c == stack[index']
              IN /\ c.initial_raw_image_id = None
                 /\ c.node_id \in DOMAIN nodes'
                 /\ RawId(nodes', c.node_id) =
                        IF nextHandle' = nextHandle THEN None ELSE nextHandle ]_vars

\* backend.release_raw_image(h) returns: there is nothing to release, the
\* backend holds h, or the build ignores an id it does not hold.
Releasable(h) == h = None \/ h \in live \/ ~strictBackend

\* C13: when the backend load fails in a redo of a LoadImageCommand after an
\* undo, the redo does not raise, the node's filepath is the new path and its
\* raw_image_id is None, and the command stays in the history at the cursor.
FailedReloadInRedo ==
    [][ (/\ LoadRedone
         /\ stack[index'].initial_raw_image_id = None
         /\ Releasable(stack[index'].old_raw_image_id)
         /\ nextHandle' = nextHandle) =>
              LET c == stack[index']
              IN /\ ~lastop'.raised
                 /\ c.node_id \in DOMAIN nodes'
                 /\ FilePath(nodes', c.node_id) = c.new_filepath
                 /\ RawId(nodes', c.node_id) = None
                 /\ Len(stack') = Len(stack)
                 /\ stack'[index'] = [c EXCEPT !.new_raw_image_id = None] ]_vars

\* C14: when the reload of the old file fails in an undo of a LoadImageCommand,
\* the undo does not raise, the new handle has been released exactly once (it
\* was live and this undo released it), the command's old_filepath and
\* old_raw_image_id are cleared and the node's filepath and raw_image_id are
\* both None.
FailedReloadInUndo ==
    [][ (/\ LoadUndone
         /\ stack[index].old_filepath # None
         /\ Releasable(stack[index].new_raw_image_id)
         /\ nextHandle' = nextHandle) =>
              LET c == stack[index]
              IN /\ ~lastop'.raised
                 /\ c.new_raw_image_id # None =>
                       (c.new_raw_image_id \in live /\ c.new_raw_image_id \notin live')
                 /\ misreleased' = misreleased
                 /\ stack'[index].old_filepath = None
                 /\ stack'[index].old_raw_image_id = None
                 /\ c.node_id \in DOMAIN nodes'
                 /\ FilePath(nodes', c.node_id) = None
                 /\ RawId(nodes', c.node_id) = None ]_vars

\* C15: when Controller.update_node_setting is called with key "filepath" on an
\* ImageLoader node and the backend load of the new path fails, no command is
\* pushed: the undo stack, the nodes' settings, the thumbnail cache and the live
\* handles (the node's previous handle among them) are unchanged.
FailedLoadChangesNothing ==
    [][ \A n \in ResIds, p \in Paths :
          (GuiSelectFile(n) /\ Controller_update_node_setting(n, "filepath", p, FALSE)) =>
              /\ pushes' = pushes
              /\ UNCHANGED <<nodes, connections, thumbnail_cache, stack, index, live,
                             nextHandle, misreleased>> ]_vars

LoadRejected ==
    /\ lastop.op = "reject"
    /\ index > 0
    /\ \E n \in DOMAIN nodes : RawId(nodes, n) \in live \cap thumbnail_cache

\* C16: pushing a LoadImageCommand for an existing node cannot fail: the push
\* records the command at the cursor and its first apply has written the new
\* path and the pre-validated, live handle to the node's settings.
LoadPushApplies ==
    [][ LoadPushed =>
            LET c == stack'[index']
            IN /\ Len(stack') = index + 1 /\ index' = index + 1
               /\ FilePath(nodes', c.node_id) = c.new_filepath
               /\ RawId(nodes', c.node_id) = c.new_raw_image_id
               /\ c.new_raw_image_id \in live' ]_vars

OneSideLive(s, lv) ==
    \A i \in 1..Len(s) :
        s[i].kind = "LoadImage" =>
            ~(s[i].old_raw_image_id \in lv /\ s[i].new_raw_image_id \in lv)

ConnectionIntegrity ==
    /\ \A i \in 1..Len(connections) :
          /\ connections[i].from_node \in DOMAIN nodes
          /\ connections[i].to_node \in DOMAIN nodes
    /\ \A i, j \in 1..Len(connections) : connections[i] = connections[j] => i = j

NodeAndConnectionsRestored ==
    /\ lastop.op = "undo"
    /\ index < Len(stack)
    /\ stack[index + 1].kind = "RemoveNode"
    /\ stack[index + 1].connections_data # <<>>
    /\ connections = stack[index + 1].connections_data

\* C20: Model.add_connection rejects a connection whose two sockets have
\* different type tags or the same direction: the call raises and the
\* connection list is left as it was.
MismatchedSocketsRejected ==
    [][ \A c \in ApiConns :
          (/\ ~SocketsMatch(c)
           /\ Controller_add_connection(c.from_node, c.from_socket, c.to_node, c.to_socket)) =>
              (lastop'.raised /\ connections' = connections) ]_vars

\* C21: Model.add_connection raises when from_node or to_node is not in the
\* node map and when the same 4-tuple is already in the list; the list is then
\* unchanged and connection_added is not emitted. Otherwise the tuple is
\* appended once and connection_added is emitted once.
AddConnectionContract ==
    [][ \A c \in ConnsOver(DocIds) :
          Call_add_connection(c) =>
              IF \/ c.from_node \notin DOMAIN nodes
                 \/ c.to_node \notin DOMAIN nodes
                 \/ InList(c, connections)
              THEN /\ lastop'.raised
                   /\ connections' = connections
                   /\ emitted' = <<>>
              ELSE /\ ~lastop'.raised
                   /\ connections' = Append(connections, c)
                   /\ emitted' = <<[ev |-> "connection_added", conn |-> c,
                                    present |-> TRUE]>> ]_vars

DuplicateConnectionRefused ==
    /\ lastop.op = "add_connection"
    /\ lastop.raised
    /\ DocIds \subseteq DOMAIN nodes
    /\ Len(connections) = 2
    /\ emitted = <<>>

\* C22: adding a node under an id that is already present raises, leaves the
\* node map unchanged and emits no node_added; adding under a fresh id inserts
\* the node, with empty settings when Model.add_node makes it, and emits
\* node_added(id) exactly once.
AddNodeContract ==
    [][ /\ \A id \in DocIds, t \in NodeTypes :
              Call_add_node_with_data(id, NewNodeData(t, 0)) =>
                  IF id \in DOMAIN nodes
                  THEN /\ lastop'.raised
                       /\ nodes' = nodes
                       /\ emitted' = <<>>
                  ELSE /\ ~lastop'.raised
                       /\ nodes' = Put(nodes, id, NewNodeData(t, 0))
                       /\ emitted' = <<[ev |-> "node_added", node |-> id, present |-> TRUE]>>
        /\ \A t \in NodeTypes, u \in DocIds :
              Call_add_node(t, 0, u) =>
                  /\ ~lastop'.raised
                  /\ nodes' = Put(nodes, u, [type |-> t, position |-> 0,
                                             settings |-> EmptyDict])
                  /\ emitted' = <<[ev |-> "node_added", node |-> u, present |-> TRUE]>> ]_vars

PresentIdRefused ==
    /\ lastop.op = "_add_node_with_data"
    /\ lastop.raised
    /\ emitted = <<>>
    /\ calls = MaxCalls

\* The call raised and did nothing else: the document, the cache and the
\* backend are as before, and nothing was emitted or called.
Refused ==
    /\ lastop'.raised
    /\ emitted' = <<>>
    /\ UNCHANGED <<nodes, connections, thumbnail_cache, live, nextHandle, misreleased>>

\* C23: every Model mutator called on an absent target (remove_node,
\* update_node_setting, update_node_position for an unknown node id and
\* remove_connection for a connection not in the list) raises, leaves nodes,
\* connections and thumbnail_cache unchanged, calls no backend function and
\* emits no notification.
AbsentTargetRefused ==
    [][ /\ \A id \in DocIds \ DOMAIN nodes :
              (\/ Call_remove_node(id)
               \/ \E k \in GenericKeys, v \in Gains : Call_update_node_setting(id, k, v)
               \/ \E q \in Positions : Call_update_node_position(id, q)) => Refused
        /\ \A c \in ConnsOver(DocIds) :
              (~InList(c, connections) /\ Call_remove_connection(c)) => Refused ]_vars

AbsentNodeRefused ==
    /\ lastop.op \in {"remove_node", "update_node_setting", "update_node_position"}
    /\ lastop.raised
    /\ ~strictBackend
    /\ DOMAIN nodes = {"n1"}
    /\ thumbnail_cache # {}

\* What Model.remove_node(id) shows for its steps (a) and (b): one
\* connection_removed per connection touching id, in list order and each after
\* its removal, then the release of the node's handle if it holds one.
RemovalPrefix(id) ==
    LET cs == SelectSeq(connections, LAMBDA c : Touches(c, id))
        h == RawId(nodes, id)
    IN [i \in 1..Len(cs) |->
           [ev |-> "connection_removed", conn |-> cs[i], present |-> FALSE]]
       \o (IF nodes[id].type = "ImageLoader" /\ h # None
           THEN <<[ev |-> "release_raw_image", handle |-> h, present |-> h \in live]>>
           ELSE <<>>)

\* C24: Model.remove_node on an existing node acts in this order: (a) each
\* incident connection is removed and connection_removed emitted for it, (b) the
\* node's handle, if any, is released and its cache entry purged, (c) the node
\* is deleted, (d) node_removed(id) is emitted; so node_removed comes after all
\* connection_removed notifications and when the node is gone from the map.
RemoveNodeOrder ==
    [][ \A id \in DOMAIN nodes :
          Call_remove_node(id) =>
              IF lastop'.raised
              THEN emitted' = RemovalPrefix(id) /\ id \in DOMAIN nodes'
              ELSE /\ emitted' = Append(RemovalPrefix(id),
                                        [ev |-> "node_removed", node |-> id,
                                         present |-> FALSE])
                   /\ id \notin DOMAIN nodes'
                   /\ RawId(nodes, id) \notin thumbnail_cache'
                   /\ \A i \in 1..Len(connections') : ~Touches(connections'[i], id) ]_vars

LoaderRemovedInOrder ==
    /\ lastop.op = "remove_node"
    /\ ~lastop.raised
    /\ Len(emitted) = 3
    /\ emitted[1].ev = "connection_removed"
    /\ emitted[2].ev = "release_raw_image"
    /\ emitted[3].ev = "node_removed"

UndoAllRestores ==
    (rt.phase = "U" /\ index = 0 /\ ~lastop.raised) =>
        AbsDoc = AbsDocOf(EditProject.nodes, EditProject.connections)

\* C27: a failed apply or revert leaves nothing half-done: when the redo of a
\* pushed or redone command, or the undo of a command, raises, the nodes and
\* the connections of the document are those before the step.
FailedStepChangesNothing ==
    [][ (lastop'.raised /\ (pushes' # pushes \/ index' # index)) =>
            (nodes' = nodes /\ connections' = connections) ]_vars

\* C28: a change notification is delivered only after the mutation it
\* announces: while the slots of node_added(id) run the node is in the node
\* map, while those of node_removed(id) run it is not, and while those of
\* connection_removed(c) run the connection is not in the connection list; for
\* every Model operation, clear() and from_dict() included.
NotifiedAfterCommit ==
    \A i \in 1..Len(emitted) :
        /\ emitted[i].ev = "node_added" => emitted[i].present
        /\ emitted[i].ev = "node_removed" => ~emitted[i].present
        /\ emitted[i].ev = "connection_removed" => ~emitted[i].present

\* C29: resource handles are never serialized: the record that Model.to_dict
\* returns and Controller.save_project writes holds no raw_image_id handle
\* value for any node, whatever handles the nodes hold when it is saved.
NoHandleInFile ==
    file # <<>> =>
        \A id \in DOMAIN file[1].nodes :
            Get(file[1].nodes[id].settings, "raw_image_id") = None

\* The nodes of the file that declare a filepath.
WithFile(data) ==
    {id \in DOMAIN data.nodes : Get(data.nodes[id].settings, "filepath") # None}

\* C30: Model.from_dict calls backend.load_raw_image once for every node of the
\* record that declares a filepath, before it emits any node_added; a node
\* whose load fails is loaded with raw_image_id None, every other node and
\* every connection of the record is loaded, and from_dict does not raise;
\* afterwards every handle held by a node was issued by one of these loads,
\* none is a value of the record.
FromDictReacquires ==
    [][ \A order \in Orders(DOMAIN nodes), okset \in SUBSET {"n1"} :
          Controller_load_project(order, okset) =>
              LET data == file[1]
                  loads == {i \in 1..Len(emitted') : emitted'[i].ev = "load_raw_image"}
                  added == {i \in 1..Len(emitted') : emitted'[i].ev = "node_added"}
              IN /\ ~lastop'.raised
                 /\ Cardinality(loads) = Cardinality(WithFile(data))
                 /\ Cardinality(added) = Cardinality(DOMAIN data.nodes)
                 /\ \A i \in loads, j \in added : i < j
                 /\ DOMAIN nodes' = DOMAIN data.nodes
                 /\ connections' = data.connections
                 /\ \A id \in DOMAIN data.nodes :
                       /\ nodes'[id].type = data.nodes[id].type
                       /\ nodes'[id].position = data.nodes[id].position
                       /\ AbsSettings(nodes'[id].settings) = AbsSettings(data.nodes[id].settings)
                       /\ id \in WithFile(data) \ okset => RawId(nodes', id) = None
                       /\ id \in WithFile(data) \cap okset =>
                             RawId(nodes', id) \in live' \ live
                       /\ RawId(nodes', id) # None =>
                             /\ RawId(nodes', id) >= nextHandle
                             /\ RawId(nodes', id) < nextHandle' ]_vars

LoadedWithFailedImage ==
    /\ lastop.op = "load_project"
    /\ ~lastop.raised
    /\ \E i \in 1..Len(emitted) :
          emitted[i] = [ev |-> "load_raw_image", handle |-> 0, present |-> FALSE]
    /\ Get(nodes["n1"].settings, "filepath") # None
    /\ RawId(nodes, "n1") = None
    /\ "n2" \in DOMAIN nodes
    /\ connections # <<>>

\* The ids of nodes that the commands of the history up to the cursor removed.
RemovedIds ==
    {stack[i].node_id : i \in {j \in 1..index : stack[j].kind = "RemoveNode"}}

\* C31: node ids are never reused: the id a pushed AddNodeCommand gets from
\* Model.add_node is neither an id in the document nor the id of a node that
\* was removed and that a RemoveNodeCommand of the undo history still names.
NodeIdsNeverReused ==
    [][ \A t \in NodeTypes, u \in NodeIds :
          Controller_add_node(t, 0, u) /\ ~lastop'.raised =>
              /\ stack'[index'].node_id \notin DOMAIN nodes
              /\ stack'[index'].node_id \notin RemovedIds ]_vars

\* C32: backend.invert_image(pixels, width, height) returns a list of the same
\* length in which every 8-bit value v is replaced by 255 - v.
InvertImageInverts ==
    test # <<>> =>
        /\ ~test[1].raised
        /\ test[1].result = [i \in 1..Len(test[1].original) |-> 255 - test[1].original[i]]

\* C33: once the reload of the old file has failed in an undo of a
\* LoadImageCommand, the command has lost its old file for good: that undo
\* clears old_filepath and old_raw_image_id, no later undo or redo gives the
\* command an old file again, and every later undo of the command writes
\* filepath None and raw_image_id None without a backend load, also when the
\* backend would load the old path now.
OldFileLostForGood ==
    [][ /\ (/\ LoadUndone /\ ~lastop'.raised
            /\ stack[index].old_filepath # None
            /\ nextHandle' = nextHandle) =>
                /\ stack'[index].old_filepath = None
                /\ stack'[index].old_raw_image_id = None
                /\ FilePath(nodes', stack[index].node_id) = None
                /\ RawId(nodes', stack[index].node_id) = None
        /\ pushes' = pushes =>
              \A i \in 1..Len(stack) :
                  (stack[i].kind = "LoadImage" /\ stack[i].old_filepath = None) =>
                      stack'[i].old_filepath = None
        /\ (/\ LoadUndone /\ ~lastop'.raised
            /\ stack[index].old_filepath = None) =>
                /\ nextHandle' = nextHandle
                /\ FilePath(nodes', stack[index].node_id) = None
                /\ RawId(nodes', stack[index].node_id) = None ]_vars

\* The one LoadImageCommand of the run replaced a file, lost it in an undo and
\* has been redone since: the node has the new file, the command no old one.
RedoneAfterLosingOldFile ==
    /\ pushes = 1 /\ index = 1
    /\ lastop.op = "redo" /\ ~lastop.raised
    /\ stack[1].kind = "LoadImage"
    /\ stack[1].old_filepath = None
    /\ stack[1].initial_raw_image_id = None
    /\ RawId(nodes, stack[1].node_id) \in live

\* The steps of an AddNodeCommand after its push: the Edit menu undoes the
\* command at the cursor or redoes the one after it.
AddUndone == lastop'.op = "undo" /\ index' = index - 1 /\ stack[index].kind = "AddNode"
AddRedone == lastop'.op = "redo" /\ index' = index + 1 /\ stack[index'].kind = "AddNode"

\* C34: AddNodeCommand keeps the node's identity: the redo run by the push
\* creates the node and records the generated id, undo removes that node, and
\* every later redo adds a node with the same id, the same type, the
\* constructor's position and empty settings; none of these steps raises.
AddNodeKeepsIdentity ==
    [][ /\ \A t \in NodeTypes, u \in NodeIds :
              Controller_add_node(t, 0, u) =>
                  /\ ~lastop'.raised
                  /\ stack'[index'].node_id = u
                  /\ nodes' = Put(nodes, u, NewNodeData(t, 0))
        /\ (AddUndone /\ stack[index].node_id # NoId) =>
              /\ ~lastop'.raised
              /\ stack[index].node_id \in DOMAIN nodes
              /\ DOMAIN nodes' = DOMAIN nodes \ {stack[index].node_id}
              /\ stack'[index] = stack[index]
        /\ (AddRedone /\ stack[index'].node_id # NoId) =>
              LET c == stack[index'] IN
              /\ ~lastop'.raised
              /\ c.node_id \notin DOMAIN nodes
              /\ nodes' = Put(nodes, c.node_id, NewNodeData(c.node_type, c.position))
              /\ stack'[index'] = c ]_vars

\* C35: Model.clear calls release_raw_image exactly once for every non-null
\* handle held by an ImageLoader node, emits connection_removed for every
\* connection and node_removed for every node, and ends with nodes,
\* connections and thumbnail_cache empty.
ClearReleasesAndEmpties ==
    [][ \A order \in Orders(DOMAIN nodes) :
          Call_clear(order) =>
              LET holders == {id \in DOMAIN nodes :
                                 nodes[id].type = "ImageLoader" /\ RawId(nodes, id) # None}
                  At(e) == {i \in 1..Len(emitted') : emitted'[i] = e}
              IN /\ ~lastop'.raised
                 /\ \A id \in holders :
                       Cardinality({i \in 1..Len(emitted') :
                                       /\ emitted'[i].ev = "release_raw_image"
                                       /\ emitted'[i].handle = RawId(nodes, id)}) = 1
                 /\ \A j \in 1..Len(connections) :
                       Cardinality(At([ev |-> "connection_removed", conn |-> connections[j],
                                       present |-> TRUE])) = 1
                 /\ \A id \in DOMAIN nodes :
                       Cardinality(At([ev |-> "node_removed", node |-> id,
                                       present |-> TRUE])) = 1
                 /\ Len(emitted') = Cardinality(holders) + Len(connections)
                                        + Cardinality(DOMAIN nodes)
                 /\ nodes' = EmptyDict
                 /\ connections' = <<>>
                 /\ thumbnail_cache' = {} ]_vars

\* C36: no handle leak: every handle that load_raw_image returned and that has
\* not been released is the raw_image_id of some node of the document, after
\* every push, undo and redo.
NoHandleLeak ==
    \A h \in live : \E id \in DOMAIN nodes : RawId(nodes, id) = h

\* C37: a loaded project is safe from the history recorded before the load: an
\* undo or redo that follows Controller.load_project releases no handle that
\* the backend no longer holds (Model.clear has released it), does not raise,
\* and leaves no live handle without a node.
LoadShieldsFromHistory ==
    [][ (/\ lastop.op = "load_project" /\ ~lastop.raised
         /\ lastop'.op \in {"undo", "redo"} /\ index' # index) =>
            /\ misreleased' = misreleased
            /\ ~lastop'.raised
            /\ \A h \in live' : \E id \in DOMAIN nodes' : RawId(nodes', id) = h ]_vars

\* C38: listeners never see a released handle in the document: whenever a
\* node_setting_changed notification is emitted during the undo or the redo of
\* a LoadImageCommand, the raw_image_id stored in the node's settings at that
\* moment is None or a handle the backend holds.
LoadNotificationsSeeLiveHandles ==
    [][ \A ok \in BOOLEAN :
          LET un == QUndoStack_undo(Machine, Env(ok, NoId)).log
              re == QUndoStack_redo(Machine, Env(ok, NoId)).log
          IN /\ (Undo(ok) /\ LoadUndone) =>
                    \A i \in 1..Len(un) :
                        un[i].ev = "node_setting_changed" => ~un[i].dangling
             /\ (Redo(ok) /\ LoadRedone) =>
                    \A i \in 1..Len(re) :
                        re[i].ev = "node_setting_changed" => ~re[i].dangling ]_vars

\* C39: while the NodeScene follows the Model, the connection items that are
\* registered in connection_items and attached to their two sockets are
\* exactly the connections of Model.connections.
SceneMirrorsModel ==
    scene.on => scene.connection_items \cap scene.shown = ConnSet(connections)

====
